---- MODULE Spec2Model ----
(***************************************************************************)
(* sticky-refinery: the coordination engine made of the task ledger        *)
(* (internal/store), the worker pool (internal/pool, in api.go), the       *)
(* daemon's scan -> filter -> dispatch loop (internal/daemon) and the      *)
(* control API handlers (internal/api).                                    *)
(*                                                                         *)
(* Threads: one daemon driver, one waiter goroutine per started worker,    *)
(* HTTP handlers running in parallel, and the shrink timer's goroutine.    *)
(* Every action below is one atomic step of one of them: a single SQL      *)
(* statement, or a critical section of Pool.mu together with the purely    *)
(* local computation around it.                                            *)
(*                                                                         *)
(* Specifications: Spec is the whole engine, with PATCH /pool requests     *)
(* that carry no grace and a clock that stands still (the timestamps of    *)
(* the ledger are written and never read by daemon, pool or handlers);     *)
(* StoreSpec runs the store's statements alone, with the clock; PoolSpec   *)
(* adds the grace to PATCH /pool; WorkerSpec follows the workers from      *)
(* dispatch to completion callback under the fairness of their waiters;    *)
(* ShutdownSpec ends the daemon and calls Pool.Shutdown; DaemonSpec starts *)
(* on a ledger with rows of every status and records each tick and each    *)
(* callback in lastCall; HandlerSpec records the stop and resume calls.    *)
(* ScanSpec applies scanner.ScanAll to a configuration and a tree;         *)
(* CodecSpec applies the task-id codec to pairs of paths; StopSpec calls   *)
(* Daemon.Stop beside the run loop; MutexSpec follows Pool.wait through    *)
(* its critical section of Pool.mu; ConverterSpec is the scan loop of the  *)
(* overseer build's handler (converter/handler.go) beside its workers.     *)
(***************************************************************************)
EXTENDS Integers, Sequences, FiniteSets, TLC

\* The files the glob patterns can match, in the order ScanAll returns them.
ScanOrder == <<"/in/a.ts", "/in/b.ts">>

Paths == {ScanOrder[i] : i \in 1..Len(ScanOrder)}

\* Bound on the number of subprocesses spawned in a run.
MaxSpawns == 2

\* Bound on the pool size an operator may configure.
MaxSize == 2

\* Bound on the number of pause requests in progress at the same time.
MaxPausing == 1

\* Bound on the shrink grace an operator may configure, in minutes.
MaxGrace == 2

\* Bound on the store's clock: now() takes the values 0..MaxClock.
MaxClock == 1

\* Bound on error_count in the runs that exercise the store alone.
MaxErrors == 2

\* Ticks of one behaviour of the recorded daemon.
MaxTicks == 2

\* The files of the directory every pattern of a small scan is matched in.
MaxFiles == 3

\* The modification times of those files are 1..MaxMTime.
MaxMTime == 3

\* The candidates of a long scan: one more than a block of sort.SliceStable.
MaxScan == 21

\* The bytes of a path given to the task-id codec.
MaxPathLen == 3

Pids == 1..MaxSpawns

\* The pipelines of the configuration, by name.
PipelineNames == {"hls", "mp4"}

\* c.PipelineName of a scanned candidate: the globs of the first pipeline
\* match every file of ScanOrder.
ScanPipeline(p) == "hls"

\* cfg.Pool.ShrinkGrace after Validate when the file gives none: time.Minute.
DefaultGrace == 1

VARIABLES
    phase,        \* main(): "boot" | "started" (d.Start() done) | "ticking"
    rows,         \* target_files: path -> row (NoRow when there is none)
    size,         \* Pool.size
    shrinkGrace,  \* Pool.shrinkGrace, in minutes
    killOrder,    \* Pool.killOrder
    workers,      \* Pool.workers: path (task id) -> pid, 0 when not in the map
    shrinkTimer,  \* the timer Pool.shrinkTimer refers to is pending
    timers,       \* delays of the timers the runtime holds pending; the one
                  \* Pool.shrinkTimer refers to, when pending, is the last
    procs,        \* subprocesses ever spawned, indexed by pid
    dpc,          \* position of the daemon's driver thread
    dFresh,       \* Dispatch: candidates (fresh) still to try
    dLeft,        \* Dispatch: slots - started
    pausing,      \* handlePauseTask requests between StopWorker and MarkPaused
    lastStart,    \* history: path and outcome of the latest startWorker call
    clock,        \* the wall clock read by the store's now()
    lastCall      \* history: the call made by the latest step of the runs that
                  \* drive the store, or the pool's PATCH handler, directly

poolVars   == <<size, shrinkGrace, killOrder, workers, shrinkTimer, timers>>
daemonVars == <<dpc, dFresh, dLeft>>
callVars   == <<clock, lastCall>>
vars == <<phase, rows, size, shrinkGrace, killOrder, workers, shrinkTimer,
          timers, procs, dpc, dFresh, dLeft, pausing, lastStart, clock, lastCall>>

----------------------------------------------------------------------------
(* Store *)

\* A row of target_files: status, error_count, error_message, pipeline_name
\* and queued_at (started_at, completed_at and last_attempted_at are written
\* and never read).  NoRow stands for a path without a row.
NoRow == [status |-> "absent", error_count |-> 0, error_message |-> "null",
          pipeline_name |-> "-", queued_at |-> 0]

Statuses == {"queued", "in_flight", "completed", "errored", "paused"}

\* An upsert that overwrites the conflicting row with the inserted one.
UpsertReplacing(r, pipeline, now) ==
    [status |-> "queued", error_count |-> 0, error_message |-> "null",
     pipeline_name |-> pipeline, queued_at |-> now]

\* INSERT ... ON CONFLICT(path) DO UPDATE SET status = CASE WHEN
\* excluded.status = 'queued' THEN 'queued' ELSE status END, queued_at = CASE
\* WHEN status = 'errored' OR status = 'paused' THEN now ELSE queued_at END.
\* The excluded (would-be inserted) row always has status 'queued'; the
\* unqualified status of the second CASE is the row's value before the update.
UpsertQueued(r, pipeline, now) ==
    IF r.status = "absent"
    THEN [status |-> "queued", error_count |-> 0, error_message |-> "null",
          pipeline_name |-> pipeline, queued_at |-> now]
    ELSE [r EXCEPT !.status = "queued",
                   !.queued_at = IF r.status \in {"errored", "paused"}
                                 THEN now ELSE r.queued_at]

\* An update written as an upsert: it inserts the row it does not find.
MarkInFlightCreating(r) ==
    IF r.status = "absent"
    THEN [status |-> "in_flight", error_count |-> 0, error_message |-> "null",
          pipeline_name |-> "-", queued_at |-> 0]
    ELSE [r EXCEPT !.status = "in_flight"]

\* The UPDATE statements match no row when the path is absent.
MarkInFlight(r) ==
    IF r.status = "absent" THEN r ELSE [r EXCEPT !.status = "in_flight"]

\* A completion update that records every exit as a failure.
MarkCompletedAsErrored(r) ==
    IF r.status = "absent" THEN r ELSE [r EXCEPT !.status = "errored"]

MarkCompleted(r) ==
    IF r.status = "absent" THEN r ELSE [r EXCEPT !.status = "completed"]

\* A MarkErrored that records the message without counting the failure.
MarkErroredUncounted(r, message) ==
    IF r.status = "absent" THEN r
    ELSE [r EXCEPT !.status = "errored", !.error_message = message]

MarkErrored(r, message) ==
    IF r.status = "absent" THEN r
    ELSE [r EXCEPT !.status = "errored",
                   !.error_count = r.error_count + 1,
                   !.error_message = message]

\* A pause that counts as a failed attempt.
MarkPausedCounting(r) ==
    IF r.status = "absent" THEN r
    ELSE [r EXCEPT !.status = "paused", !.error_count = r.error_count + 1]

MarkPaused(r) ==
    IF r.status = "absent" THEN r ELSE [r EXCEPT !.status = "paused"]

\* A resume that starts the row's error history afresh.
MarkResumedResetting(r) ==
    IF r.status = "absent" THEN r
    ELSE [r EXCEPT !.status = "queued", !.error_message = "null",
                   !.error_count = 0]

\* A resume that leaves the message of the last failure in the row.
MarkResumedKeepingMessage(r) ==
    IF r.status = "absent" THEN r ELSE [r EXCEPT !.status = "queued"]

MarkResumed(r) ==
    IF r.status = "absent" THEN r
    ELSE [r EXCEPT !.status = "queued", !.error_message = "null"]

----------------------------------------------------------------------------
(* Pool helpers *)

\* len(p.workers)
ActiveCount == Cardinality({p \in Paths : workers[p] # 0})

\* A lookup that never finds the id in the map.
RunningNever(p) == FALSE

\* _, running := p.workers[id]
Running(p) == workers[p] # 0

\* A cancellation that reaches every running subprocess.
CancelAll(ps, pid) ==
    [i \in 1..Len(ps) |->
        IF ps[i].st = "running" THEN [ps[i] EXCEPT !.cancelled = TRUE] ELSE ps[i]]

\* w.cancel(): the context of the subprocess is cancelled; it only matters
\* while the subprocess has not been reaped.
Cancel(ps, pid) ==
    IF ps[pid].st = "running" THEN [ps EXCEPT ![pid].cancelled = TRUE] ELSE ps

\* err.Error() of cmd.Wait()'s result
ErrText(err) == IF err = "killed" THEN "signal: killed" ELSE "exit status 1"

\* A startWorker that logs a MarkInFlight error and carries on (as
\* converterHandler.Start does).
AfterMarkIgnoringError(failed) == "spawn"

\* startWorker's control flow on the result of Store.MarkInFlight: return the
\* error to Dispatch's loop, or go on to cmd.Start().
AfterMark(failed) == IF failed THEN "loop" ELSE "spawn"

----------------------------------------------------------------------------
(* Initial state: the ledger is what an earlier run left on disk (here: no  *)
(* row, or a row left in_flight by a run that was killed); pool and daemon  *)
(* are freshly constructed.                                                 *)

LeftInFlight == [status |-> "in_flight", error_count |-> 0, error_message |-> "null",
                 pipeline_name |-> "hls", queued_at |-> 0]

\* No call recorded.
NoCall == [op |-> "none"]

NoStart == [path |-> "-", outcome |-> "none"]

Init ==
    /\ phase = "boot"
    /\ rows \in [Paths -> {NoRow, LeftInFlight}]
    /\ size \in 1..MaxSize
    /\ shrinkGrace = DefaultGrace
    /\ killOrder \in {"oldest", "youngest"}
    /\ workers = [p \in Paths |-> 0]
    /\ shrinkTimer = FALSE
    /\ timers = <<>>
    /\ procs = <<>>
    /\ dpc = "idle"
    /\ dFresh = <<>>
    /\ dLeft = 0
    /\ pausing = {}
    /\ lastStart = NoStart
    /\ clock = 0
    /\ lastCall = NoCall

----------------------------------------------------------------------------
(* main *)

\* db.Open, store.New (applies the schema only), pool.New, daemon.New,
\* d.Start(): no ledger row is touched.
Startup ==
    /\ phase = "boot"
    /\ phase' = "started"
    /\ UNCHANGED <<rows, poolVars, procs, daemonVars, pausing, lastStart, callVars>>

----------------------------------------------------------------------------
(* Daemon.scanAndDispatch *)

\* A filter that also lets a path through whose worker is running.
RequeueableOrInFlight(status) == status \in {"queued", "errored", "in_flight"}

\* switch tf.Status { case "queued", "errored": fresh = append(fresh, c) }
Requeueable(status) == status \in {"queued", "errored"}

\* GetByPath(c.Path) returns an error: there is no row, or the driver failed.
LookupFails(r, io) == r.status = "absent" \/ io # "ok"

\* The candidate's row after its iteration of the filter loop.  On a failed
\* lookup the daemon calls UpsertQueued, which may fail in turn.
FilterRow(r, io, pipeline, now) ==
    IF LookupFails(r, io) /\ io # "upsert_failed"
    THEN UpsertQueued(r, pipeline, now) ELSE r

\* The candidate is appended to fresh.
FilterKeeps(r, io) ==
    IF LookupFails(r, io) THEN io # "upsert_failed" ELSE Requeueable(r.status)

\* The candidates the filter loop appends to fresh, in scan order.
Fresh(found, io) ==
    SelectSeq(ScanOrder, LAMBDA p : p \in found /\ FilterKeeps(rows[p], io[p]))

\* One tick up to the moment Pool.Dispatch has read its free-slot count:
\* ScanAll, the filter loop, and slots := p.size - len(p.workers).  Each
\* iteration of the filter loop reads and writes only its own candidate's
\* row and the daemon's locals, so it commutes with every step of another
\* thread that does not touch that row, and a step that does touch it falls
\* in the window between the filter and startWorker all the same: the tick's
\* prefix is one step.  found is what the walk sees on the filesystem, io the
\* store's behaviour for each candidate.  The run loop ticks until Stop.
Scan(found, io) ==
    /\ phase \in {"started", "ticking"}
    /\ dpc = "idle"
    /\ phase' = "ticking"
    /\ LET fresh == Fresh(found, io)
           slots == size - ActiveCount
       IN  /\ rows' = [p \in Paths |->
                          IF p \in found
                          THEN FilterRow(rows[p], io[p], ScanPipeline(p), clock)
                          ELSE rows[p]]
           /\ IF fresh # <<>> /\ slots > 0
              THEN /\ dFresh' = fresh
                   /\ dLeft' = slots
                   /\ dpc' = "loop"
              ELSE UNCHANGED <<dpc, dFresh, dLeft>>
    /\ lastStart' = NoStart
    /\ UNCHANGED <<poolVars, procs, pausing, clock>>

Tick ==
    /\ \E found \in SUBSET Paths, io \in [Paths -> {"ok", "lookup_failed", "upsert_failed"}] :
          Scan(found, io)
    /\ UNCHANGED lastCall

\* A loop that goes on to the end of the list however many it has started.
LoopEndsWithList(fresh, left) == fresh = <<>>

\* A loop that gives up at the first candidate whose subprocess fails to
\* start.
LoopEndsOnFailure(fresh, left) ==
    fresh = <<>> \/ left <= 0 \/ lastStart.outcome = "spawn_failed"

\* for _, c := range candidates { if started >= slots { break } ... }
LoopEnds(fresh, left) == fresh = <<>> \/ left <= 0

\* Head of Dispatch's loop: stop, skip a running candidate, or enter
\* startWorker (merge extras, render target and command: local, may fail).
DispatchNext ==
    /\ dpc = "loop"
    /\ IF LoopEnds(dFresh, dLeft)
       THEN /\ dpc' = "idle"
            /\ dFresh' = <<>>
            /\ dLeft' = 0
       ELSE LET c == Head(dFresh) IN
            IF Running(c)
            THEN /\ dFresh' = Tail(dFresh)
                 /\ UNCHANGED <<dpc, dLeft>>
            ELSE \/ \* render error
                    /\ dFresh' = Tail(dFresh)
                    /\ UNCHANGED <<dpc, dLeft>>
                 \/ /\ Len(procs) < MaxSpawns
                    /\ dpc' = "mark"
                    /\ UNCHANGED <<dFresh, dLeft>>
    /\ UNCHANGED <<phase, rows, poolVars, procs, pausing, lastStart, callVars>>

\* p.store.MarkInFlight(c.Path)
StartMark ==
    /\ dpc = "mark"
    /\ LET c == Head(dFresh) IN
       \E failed \in BOOLEAN :
          /\ rows' = IF failed THEN rows
                     ELSE [rows EXCEPT ![c] = MarkInFlight(rows[c])]
          /\ lastStart' = IF failed THEN NoStart
                           ELSE [path |-> c, outcome |-> "marked"]
          /\ dpc' = AfterMark(failed)
          /\ dFresh' = IF dpc' = "loop" THEN Tail(dFresh) ELSE dFresh
    /\ UNCHANGED <<phase, poolVars, procs, dLeft, pausing, callVars>>

\* cmd.Start(), and on success p.workers[id] = w; go p.wait(w, ...);
\* started++.  Until the worker is in the map nothing but this thread can
\* reach the subprocess, so start and registration are one step.
StartSpawn ==
    /\ dpc = "spawn"
    /\ LET c == Head(dFresh) IN
       \/ \* start command: error
          /\ lastStart' = [path |-> c, outcome |-> "spawn_failed"]
          /\ UNCHANGED <<procs, workers, dLeft>>
       \/ /\ Len(procs) < MaxSpawns
          /\ procs' = Append(procs, [path |-> c, st |-> "running",
                                     cancelled |-> FALSE, err |-> "nil"])
          /\ workers' = [workers EXCEPT ![c] = Len(procs) + 1]
          /\ lastStart' = NoStart
          /\ dLeft' = dLeft - 1
    /\ dFresh' = Tail(dFresh)
    /\ dpc' = "loop"
    /\ UNCHANGED <<phase, rows, size, shrinkGrace, killOrder, shrinkTimer, timers,
                   pausing, callVars>>

----------------------------------------------------------------------------
(* Pool.wait and the completion callback daemon.OnComplete *)

DoneProc == [path |-> "-", st |-> "done", cancelled |-> FALSE, err |-> "nil"]

\* cmd.Wait() returns and the worker is deleted from the map.  A cancelled
\* subprocess is killed, unless it had already exited by itself.
WorkerExit(pid) ==
    /\ pid \in 1..Len(procs)
    /\ procs[pid].st = "running"
    /\ \E err \in (IF procs[pid].cancelled THEN {"killed"} ELSE {}) \cup {"nil", "exit"} :
          procs' = [procs EXCEPT ![pid] =
                       [path |-> procs[pid].path, st |-> "callback",
                        cancelled |-> FALSE, err |-> err]]
    /\ workers' = [workers EXCEPT ![procs[pid].path] = 0]
    /\ UNCHANGED <<phase, rows, size, shrinkGrace, killOrder, shrinkTimer, timers,
                   daemonVars, pausing, lastStart, callVars>>

\* removeFileWithRetry(path, 4, 250ms) is called: after every successful
\* exit, whatever the pipeline's configuration says.
Removes(err) == err = "nil"

\* onComplete: MarkErrored, or MarkCompleted followed by removeFileWithRetry;
\* a store error is only logged (stored = FALSE).  The filesystem is not part
\* of the state: what a scan finds is an input of Tick.
OnComplete(pid, stored) ==
    /\ pid \in 1..Len(procs)
    /\ procs[pid].st = "callback"
    /\ LET p == procs[pid].path
           err == procs[pid].err IN
       rows' = IF ~stored THEN rows
               ELSE IF err # "nil"
                    THEN [rows EXCEPT ![p] = MarkErrored(rows[p], ErrText(err))]
                    ELSE [rows EXCEPT ![p] = MarkCompleted(rows[p])]
    /\ procs' = [procs EXCEPT ![pid] = DoneProc]
    /\ UNCHANGED <<phase, poolVars, daemonVars, pausing, lastStart, clock>>

CompletionCallback(pid) ==
    /\ \E stored \in BOOLEAN : OnComplete(pid, stored)
    /\ UNCHANGED lastCall

----------------------------------------------------------------------------
(* Pool.Resize and Pool.killExcess *)

\* A Resize that overwrites Pool.shrinkTimer without stopping the timer it
\* refers to: every re-arming leaves one more timer pending.
StopNothing(ts) == ts

\* if p.shrinkTimer != nil { p.shrinkTimer.Stop() }: the timer the field
\* refers to is withdrawn if it is still pending; Stop has no effect on a
\* timer that has fired.
StopTimer(ts) == IF shrinkTimer THEN SubSeq(ts, 1, Len(ts) - 1) ELSE ts

\* Pool.Resize(size, grace, killOrder), one critical section of Pool.mu: a
\* grace of 0 keeps the configured one, and the timer is (re)armed, with
\* p.shrinkGrace, only if the pool is over the new size at this moment.
Resize(n, grace, order) ==
    /\ size' = n
    /\ shrinkGrace' = IF grace > 0 THEN grace ELSE shrinkGrace
    /\ killOrder' = IF order # "" THEN order ELSE killOrder
    /\ IF ActiveCount > n
       THEN /\ timers' = Append(StopTimer(timers), shrinkGrace')
            /\ shrinkTimer' = TRUE
       ELSE UNCHANGED <<shrinkTimer, timers>>
    /\ UNCHANGED workers

\* PATCH /pool without shrink_grace: handlePatchPool passes the zero Duration.
PatchSize(n, order) ==
    /\ phase # "boot"
    /\ Resize(n, 0, order)
    /\ UNCHANGED <<phase, rows, procs, daemonVars, pausing, lastStart, callVars>>

\* PATCH /pool with size, shrink_grace ("0s" or more) and shrink_kill_order.
\* lastCall keeps the grace of the request and what Resize found: the pool
\* within the new size ("no"), over it with no timer pending ("new") or over
\* it with a timer pending ("replaced").
PatchPool(n, grace, order) ==
    /\ phase # "boot"
    /\ Resize(n, grace, order)
    /\ lastCall' = [op |-> "Resize", grace |-> grace,
                    armed |-> IF ActiveCount <= n THEN "no"
                              ELSE IF shrinkTimer THEN "replaced" ELSE "new"]
    /\ UNCHANGED <<phase, rows, procs, daemonVars, pausing, lastStart, clock>>

\* A selection that sorts by startedAt ascending whatever the kill order.
ToKillOldest(excess) ==
    LET active == {workers[p] : p \in {q \in Paths : workers[q] # 0}} IN
    {pid \in active : Cardinality({o \in active : o < pid}) < excess}

\* The pids of the excess workers, by startedAt (pids grow with startedAt).
ToKill(excess) ==
    LET active == {workers[p] : p \in {q \in Paths : workers[q] # 0}} IN
    {pid \in active :
        Cardinality({o \in active :
            IF killOrder = "youngest" THEN o > pid ELSE o < pid}) < excess}

\* A pending timer fires: killExcess picks the excess workers under the lock
\* and cancels them.  A cancelled subprocess may still exit by itself, so the
\* cancellations are one step with the selection.
KillExcess ==
    /\ \E i \in 1..Len(timers) :
          /\ timers' = SubSeq(timers, 1, i - 1) \o SubSeq(timers, i + 1, Len(timers))
          /\ shrinkTimer' = (shrinkTimer /\ i # Len(timers))
    /\ LET kill == ToKill(ActiveCount - size) IN
       procs' = [pid \in 1..Len(procs) |->
                    IF pid \in kill THEN [procs[pid] EXCEPT !.cancelled = TRUE]
                    ELSE procs[pid]]
    /\ UNCHANGED <<phase, rows, size, shrinkGrace, killOrder, workers, daemonVars,
                   pausing, lastStart, callVars>>

----------------------------------------------------------------------------
(* Control API *)

\* POST /tasks/{id}/stop: Pool.StopWorker
StopTask(p) ==
    /\ phase # "boot"
    /\ Running(p)
    /\ procs' = Cancel(procs, workers[p])
    /\ UNCHANGED <<phase, rows, poolVars, daemonVars, pausing, lastStart, callVars>>

\* POST /tasks/{id}/pause, first half: _ = s.pool.StopWorker(id)
PauseStop(p) ==
    /\ phase # "boot"
    /\ p \notin pausing
    /\ Cardinality(pausing) < MaxPausing
    /\ procs' = IF Running(p) THEN Cancel(procs, workers[p]) ELSE procs
    /\ pausing' = pausing \cup {p}
    /\ UNCHANGED <<phase, rows, poolVars, daemonVars, lastStart, callVars>>

\* POST /tasks/{id}/pause, second half: s.store.MarkPaused(path)
PauseMark(p) ==
    /\ p \in pausing
    /\ pausing' = pausing \ {p}
    /\ \/ rows' = [rows EXCEPT ![p] = MarkPaused(rows[p])]
       \/ rows' = rows
    /\ UNCHANGED <<phase, poolVars, procs, daemonVars, lastStart, callVars>>

\* POST /tasks/{id}/resume: s.store.MarkResumed(path)
ResumeTask(p) ==
    /\ phase # "boot"
    /\ \/ rows' = [rows EXCEPT ![p] = MarkResumed(rows[p])]
       \/ rows' = rows
    /\ UNCHANGED <<phase, poolVars, procs, daemonVars, pausing, lastStart, callVars>>

----------------------------------------------------------------------------
(* Shutdown: main calls d.Stop(), httpServer.Shutdown and p.Shutdown(5 min) *)

\* d.Stop() returns once run() has left its loop, which starts with a scan
\* and finishes the tick in progress; the HTTP server has stopped serving.
\* Pool.Shutdown then snapshots the map and cancels every worker in it.
ShutdownBegin ==
    /\ phase = "ticking"
    /\ dpc = "idle"
    /\ phase' = "stopping"
    /\ procs' = [pid \in 1..Len(procs) |->
                    IF \E p \in Paths : workers[p] = pid
                    THEN Cancel(procs, pid)[pid] ELSE procs[pid]]
    /\ UNCHANGED <<rows, poolVars, daemonVars, pausing, lastStart, callVars>>

\* remaining := len(p.workers); if remaining == 0 { break }
ShutdownReturn ==
    /\ phase = "stopping"
    /\ ActiveCount = 0
    /\ phase' = "down"
    /\ UNCHANGED <<rows, poolVars, procs, daemonVars, pausing, lastStart, callVars>>

\* if time.Now().After(deadline): Process.Kill() on every worker still in
\* the map, then break.  The subprocesses are already being killed through
\* their cancelled contexts; nothing waits for the waiters to empty the map.
ShutdownDeadline ==
    /\ phase = "stopping"
    /\ ActiveCount > 0
    /\ phase' = "down"
    /\ UNCHANGED <<rows, poolVars, procs, daemonVars, pausing, lastStart, callVars>>

----------------------------------------------------------------------------

Next ==
    \/ Startup
    \/ Tick
    \/ DispatchNext
    \/ StartMark
    \/ StartSpawn
    \/ \E pid \in Pids : WorkerExit(pid)
    \/ \E pid \in Pids : CompletionCallback(pid)
    \/ \E n \in 0..MaxSize, order \in {"", "oldest", "youngest"} : PatchSize(n, order)
    \/ KillExcess
    \/ \E p \in Paths : StopTask(p)
    \/ \E p \in Paths : PauseStop(p)
    \/ \E p \in Paths : PauseMark(p)
    \/ \E p \in Paths : ResumeTask(p)

Spec == Init /\ [][Next]_vars

----------------------------------------------------------------------------
(* The store alone: the statements of internal/store executed in any order *)
(* by any caller, on a ledger that starts empty, while the clock advances. *)
(* Pool and daemon stay as constructed.                                     *)

StoreInit ==
    /\ phase = "boot"
    /\ rows = [p \in Paths |-> NoRow]
    /\ size = 1
    /\ shrinkGrace = DefaultGrace
    /\ killOrder = "oldest"
    /\ workers = [p \in Paths |-> 0]
    /\ shrinkTimer = FALSE
    /\ timers = <<>>
    /\ procs = <<>>
    /\ dpc = "idle"
    /\ dFresh = <<>>
    /\ dLeft = 0
    /\ pausing = {}
    /\ lastStart = NoStart
    /\ clock = 0
    /\ lastCall = NoCall

\* One statement on the row of path p; lastCall records it.
Exec(call, p, row) ==
    /\ rows' = [rows EXCEPT ![p] = row]
    /\ lastCall' = call
    /\ UNCHANGED <<phase, poolVars, procs, daemonVars, pausing, lastStart, clock>>

ExecUpsertQueued(p, pipeline) ==
    Exec([op |-> "UpsertQueued", path |-> p, pipeline |-> pipeline], p,
         UpsertQueued(rows[p], pipeline, clock))

ExecMarkInFlight(p) ==
    Exec([op |-> "MarkInFlight", path |-> p], p, MarkInFlight(rows[p]))

ExecMarkCompleted(p) ==
    Exec([op |-> "MarkCompleted", path |-> p], p, MarkCompleted(rows[p]))

ExecMarkErrored(p) ==
    /\ rows[p].error_count < MaxErrors
    /\ Exec([op |-> "MarkErrored", path |-> p], p,
            MarkErrored(rows[p], ErrText("exit")))

ExecMarkPaused(p) ==
    Exec([op |-> "MarkPaused", path |-> p], p, MarkPaused(rows[p]))

ExecMarkResumed(p) ==
    Exec([op |-> "MarkResumed", path |-> p], p, MarkResumed(rows[p]))

\* Time passes: now() returns a later timestamp.
ClockAdvance ==
    /\ clock < MaxClock
    /\ clock' = clock + 1
    /\ lastCall' = NoCall
    /\ UNCHANGED <<phase, rows, poolVars, procs, daemonVars, pausing, lastStart>>

StoreNext ==
    \/ \E p \in Paths, pipeline \in PipelineNames : ExecUpsertQueued(p, pipeline)
    \/ \E p \in Paths : ExecMarkInFlight(p)
    \/ \E p \in Paths : ExecMarkCompleted(p)
    \/ \E p \in Paths : ExecMarkErrored(p)
    \/ \E p \in Paths : ExecMarkPaused(p)
    \/ \E p \in Paths : ExecMarkResumed(p)
    \/ ClockAdvance

StoreSpec == StoreInit /\ [][StoreNext]_vars

----------------------------------------------------------------------------
(* Pool and daemon under PATCH /pool requests that carry a size and a       *)
(* grace: a fresh ledger, any configured size and grace, the default kill   *)
(* order, no pause, resume or stop requests.                                *)

PoolInit ==
    /\ phase = "boot"
    /\ rows = [p \in Paths |-> NoRow]
    /\ size \in 1..MaxSize
    /\ shrinkGrace \in 1..MaxGrace
    /\ killOrder = "oldest"
    /\ workers = [p \in Paths |-> 0]
    /\ shrinkTimer = FALSE
    /\ timers = <<>>
    /\ procs = <<>>
    /\ dpc = "idle"
    /\ dFresh = <<>>
    /\ dLeft = 0
    /\ pausing = {}
    /\ lastStart = NoStart
    /\ clock = 0
    /\ lastCall = NoCall

PoolNext ==
    \/ Startup
    \/ Tick
    \/ DispatchNext
    \/ StartMark
    \/ StartSpawn
    \/ \E pid \in Pids : WorkerExit(pid)
    \/ \E pid \in Pids : CompletionCallback(pid)
    \/ \E n \in 0..MaxSize, grace \in 0..MaxGrace : PatchPool(n, grace, "")
    \/ KillExcess

PoolSpec == PoolInit /\ [][PoolNext]_vars

----------------------------------------------------------------------------
(* The life of the workers: dispatch, exit (by itself or after a stop       *)
(* request) and completion callback, with the fairness of the goroutine of  *)
(* Pool.wait: once cmd.Wait() has returned, the call of onComplete is made. *)

WorkerInit ==
    /\ PoolInit
    /\ shrinkGrace = DefaultGrace

WorkerNext ==
    \/ Startup
    \/ Tick
    \/ DispatchNext
    \/ StartMark
    \/ StartSpawn
    \/ \E pid \in Pids : WorkerExit(pid)
    \/ \E pid \in Pids : CompletionCallback(pid)
    \/ \E p \in Paths : StopTask(p)

WorkerSpec ==
    /\ WorkerInit
    /\ [][WorkerNext]_vars
    /\ \A pid \in Pids : WF_vars(CompletionCallback(pid))

----------------------------------------------------------------------------
(* Shutdown of the process after a signal: daemon and pool, no API calls *)

ShutdownInit == WorkerInit

ShutdownNext ==
    \/ Startup
    \/ Tick
    \/ DispatchNext
    \/ StartMark
    \/ StartSpawn
    \/ \E pid \in Pids : WorkerExit(pid)
    \/ \E pid \in Pids : CompletionCallback(pid)
    \/ ShutdownBegin
    \/ ShutdownReturn
    \/ ShutdownDeadline

ShutdownSpec == ShutdownInit /\ [][ShutdownNext]_vars

----------------------------------------------------------------------------
(* The daemon and the pool with each tick and each callback recorded *)

\* Rows a ledger can hold when the daemon starts on an existing database.
StoredRows ==
    {NoRow} \cup
    {[status |-> s,
      error_count |-> IF s = "errored" THEN 1 ELSE 0,
      error_message |-> IF s = "errored" THEN ErrText("exit") ELSE "null",
      pipeline_name |-> "hls", queued_at |-> 0] : s \in Statuses}

DaemonInit ==
    /\ phase = "boot"
    /\ rows \in [Paths -> StoredRows]
    /\ size \in 1..MaxSize
    /\ shrinkGrace = DefaultGrace
    /\ killOrder = "oldest"
    /\ workers = [p \in Paths |-> 0]
    /\ shrinkTimer = FALSE
    /\ timers = <<>>
    /\ procs = <<>>
    /\ dpc = "idle"
    /\ dFresh = <<>>
    /\ dLeft = 0
    /\ pausing = {}
    /\ lastStart = NoStart
    /\ clock = 0
    /\ lastCall = NoCall

\* The ticks recorded so far.
TickCount == IF lastCall.op \in {"tick", "callback"} THEN lastCall.n ELSE 0

\* A tick; lastCall keeps what the scan found, how the store answered for
\* each candidate, and the list the tick handed to Pool.Dispatch.
TickSeen ==
    /\ TickCount < MaxTicks
    /\ \E found \in SUBSET Paths, io \in [Paths -> {"ok", "lookup_failed", "upsert_failed"}] :
          /\ \A p \in Paths \ found : io[p] = "ok"
          /\ Scan(found, io)
          /\ lastCall' = [op |-> "tick", n |-> TickCount + 1, found |-> found,
                          io |-> io, handed |-> Fresh(found, io)]

\* The completion callback; lastCall keeps its arguments, whether the store
\* update went through, and whether removeFileWithRetry was called.
CallbackSeen(pid) ==
    /\ \E stored \in BOOLEAN :
          /\ OnComplete(pid, stored)
          /\ lastCall' = [op |-> "callback", n |-> TickCount,
                          path |-> procs[pid].path, err |-> procs[pid].err,
                          stored |-> stored, removed |-> Removes(procs[pid].err)]

DaemonNext ==
    \/ Startup
    \/ TickSeen
    \/ DispatchNext
    \/ StartMark
    \/ StartSpawn
    \/ \E pid \in Pids : WorkerExit(pid)
    \/ \E pid \in Pids : CallbackSeen(pid)

DaemonSpec == DaemonInit /\ [][DaemonNext]_vars

----------------------------------------------------------------------------
(* The control API's task handlers, recorded, beside the daemon and the pool *)

\* Distinguishes a recorded call from the one recorded before it.
Flip == IF lastCall.op = "none" THEN 0 ELSE 1 - lastCall.alt

\* POST /tasks/{id}/stop for any id: Pool.StopWorker cancels the worker of
\* an active id and returns an error (404) for any other.
StopSeen(p) ==
    /\ phase # "boot"
    /\ procs' = IF Running(p) THEN Cancel(procs, workers[p]) ELSE procs
    /\ lastCall' = [op |-> "stop", path |-> p, alt |-> Flip,
                    result |-> IF Running(p) THEN "stopping" ELSE "not_found"]
    /\ UNCHANGED <<phase, rows, poolVars, daemonVars, pausing, lastStart, clock>>

\* POST /tasks/{id}/resume
ResumeSeen(p) ==
    /\ phase # "boot"
    /\ \/ rows' = [rows EXCEPT ![p] = MarkResumed(rows[p])]
       \/ rows' = rows
    /\ lastCall' = [op |-> "resume", path |-> p, alt |-> Flip]
    /\ UNCHANGED <<phase, poolVars, procs, daemonVars, pausing, lastStart, clock>>

\* The ledger of an earlier run may hold paths the operator paused.
HandlerInit ==
    /\ DaemonInit
    /\ \A p \in Paths : rows[p].status \in {"absent", "paused"}

HandlerNext ==
    \/ Startup
    \/ Tick
    \/ DispatchNext
    \/ StartMark
    \/ StartSpawn
    \/ \E pid \in Pids : WorkerExit(pid)
    \/ \E pid \in Pids : CompletionCallback(pid)
    \/ \E p \in Paths : StopSeen(p)
    \/ \E p \in Paths : ResumeSeen(p)

HandlerSpec == HandlerInit /\ [][HandlerNext]_vars

----------------------------------------------------------------------------
(* scanner.ScanAll: the walk, the age filter, the merge and the sort *)

\* time.Now() of a scan, in the unit modification times are counted in.
Now == 3

\* time in the direction of the candidate on the LEFT of the comparison.
Less(x, y) ==
    IF x.Priority # y.Priority THEN x.Priority < y.Priority
    ELSE IF x.Direction = "oldest" THEN x.ModTime < y.ModTime
    ELSE x.ModTime > y.ModTime

\* sort.SliceStable, as package sort computes it on indices 0..n-1:
\* insertion sort of blocks of 20, then SymMerge passes over doubled blocks.
\* With a less that is no ordering the result is what these steps produce.
blockSize == 20

Swap(d, i, j) == [d EXCEPT ![i + 1] = d[j + 1], ![j + 1] = d[i + 1]]

\* for j := i; j > a && less(j, j-1); j-- { swap(j, j-1) }
RECURSIVE sift(_, _, _)
sift(d, j, a) ==
    IF j > a /\ Less(d[j + 1], d[j]) THEN sift(Swap(d, j, j - 1), j - 1, a)
    ELSE d

\* insertionSort(data, a, b), from index i on
RECURSIVE insertionSort(_, _, _, _)
insertionSort(d, a, b, i) ==
    IF i < b THEN insertionSort(sift(d, i, a), a, b, i + 1) ELSE d

\* swapRange(data, a, b, n)
RECURSIVE swapRange(_, _, _, _)
swapRange(d, a, b, n) ==
    IF n <= 0 THEN d ELSE swapRange(Swap(d, a, b), a + 1, b + 1, n - 1)

\* rotate(data, a, m, b): the loop on (i, j), then the final swapRange
RECURSIVE rotateLoop(_, _, _, _)
rotateLoop(d, m, i, j) ==
    IF i = j THEN swapRange(d, m - i, m, i)
    ELSE IF i > j THEN rotateLoop(swapRange(d, m - i, m, j), m, i - j, j)
    ELSE rotateLoop(swapRange(d, m - i, m + j - i, i), m, i, j - i)

rotate(d, a, m, b) == rotateLoop(d, m, m - a, b - m)

\* The three binary searches of symMerge.
RECURSIVE searchRight(_, _, _, _)
searchRight(d, a, i, j) ==
    IF i < j
    THEN LET h == (i + j) \div 2 IN
         IF Less(d[h + 1], d[a + 1]) THEN searchRight(d, a, h + 1, j)
         ELSE searchRight(d, a, i, h)
    ELSE i

RECURSIVE searchLeft(_, _, _, _)
searchLeft(d, m, i, j) ==
    IF i < j
    THEN LET h == (i + j) \div 2 IN
         IF ~Less(d[m + 1], d[h + 1]) THEN searchLeft(d, m, h + 1, j)
         ELSE searchLeft(d, m, i, h)
    ELSE i

RECURSIVE searchMid(_, _, _, _)
searchMid(d, p, start, r) ==
    IF start < r
    THEN LET c == (start + r) \div 2 IN
         IF ~Less(d[p - c + 1], d[c + 1]) THEN searchMid(d, p, c + 1, r)
         ELSE searchMid(d, p, start, c)
    ELSE start

\* for k := a; k < i-1; k++ { swap(k, k+1) }
RECURSIVE shiftUp(_, _, _)
shiftUp(d, k, i) == IF k < i - 1 THEN shiftUp(Swap(d, k, k + 1), k + 1, i) ELSE d

\* for k := m; k > i; k-- { swap(k, k-1) }
RECURSIVE shiftDown(_, _, _)
shiftDown(d, k, i) == IF k > i THEN shiftDown(Swap(d, k, k - 1), k - 1, i) ELSE d

\* symMerge(data, a, m, b)
RECURSIVE symMerge(_, _, _, _)
symMerge(d, a, m, b) ==
    IF m - a = 1 THEN shiftUp(d, a, searchRight(d, a, m, b))
    ELSE IF b - m = 1 THEN shiftDown(d, m, searchLeft(d, m, a, m))
    ELSE LET mid == (a + b) \div 2
             n == mid + m
             start == IF m > mid THEN searchMid(d, n - 1, n - b, mid)
                      ELSE searchMid(d, n - 1, a, m)
             end == n - start
             d1 == IF start < m /\ m < end THEN rotate(d, start, m, end) ELSE d
             d2 == IF a < start /\ start < mid THEN symMerge(d1, a, start, mid)
                   ELSE d1
         IN  IF mid < end /\ end < b THEN symMerge(d2, mid, end, b) ELSE d2

\* stable(data, n): the first loop, over the blocks
RECURSIVE sortBlocks(_, _, _)
sortBlocks(d, a, b) ==
    IF b <= Len(d) THEN sortBlocks(insertionSort(d, a, b, a + 1), b, b + blockSize)
    ELSE insertionSort(d, a, Len(d), a + 1)

\* one pass of merges with blocks of size bs
RECURSIVE mergePass(_, _, _, _)
mergePass(d, a, b, bs) ==
    IF b <= Len(d) THEN mergePass(symMerge(d, a, a + bs, b), b, b + 2 * bs, bs)
    ELSE IF a + bs < Len(d) THEN symMerge(d, a, a + bs, Len(d))
    ELSE d

RECURSIVE mergeLoop(_, _)
mergeLoop(d, bs) ==
    IF bs < Len(d) THEN mergeLoop(mergePass(d, 0, 2 * bs, bs), 2 * bs) ELSE d

SliceStable(d) == mergeLoop(sortBlocks(d, 0, blockSize), blockSize)

\* A walker that gives up on the first directory it cannot read.
GlobWalkErrOnIO(pattern) == IF pattern.fault = "none" THEN "nil" ELSE "io_error"

\* What doublestar.GlobWalk returns for a pattern: ErrBadPattern for a
\* malformed one.  I/O errors met while reading directories are not returned
\* (the walker is called without WithFailOnIOErrors): the walk reports what
\* it could read, here nothing under an unreadable root.
GlobWalkErr(pattern) == IF pattern.fault = "pattern" THEN "bad_pattern" ELSE "nil"

\* The files the callback is called for, in walk order.
GlobWalkFiles(pattern) == IF pattern.fault = "none" THEN pattern.walk ELSE <<>>

\* if p.MaxAge != nil && age > p.MaxAge.Duration { return nil }
Admits(p, mtime) ==
    LET age == Now - mtime IN
    /\ ~(p.MinAge.set /\ age < p.MinAge.d)
    /\ ~(p.MaxAge.set /\ age > p.MaxAge.d)

\* A callback that never consults seen.
walkFnUnseen(p, acc, f) ==
    IF ~Admits(p, f.ModTime) THEN acc
    ELSE [acc EXCEPT !.out = Append(acc.out,
                [Path |-> f.Path, PipelineName |-> p.Name,
                 Priority |-> p.Priority, ModTime |-> f.ModTime,
                 Direction |-> p.Direction])]

\* The callback of GlobWalk on one file: acc holds out and seen.
walkFn(p, acc, f) ==
    IF f.Path \in acc.seen \/ ~Admits(p, f.ModTime) THEN acc
    ELSE [acc EXCEPT !.seen = acc.seen \cup {f.Path},
                     !.out = Append(acc.out,
                        [Path |-> f.Path, PipelineName |-> p.Name,
                         Priority |-> p.Priority, ModTime |-> f.ModTime,
                         Direction |-> p.Direction])]

RECURSIVE walk(_, _, _)
walk(p, acc, files) ==
    IF files = <<>> THEN acc ELSE walk(p, walkFn(p, acc, Head(files)), Tail(files))

\* scanPipeline(p, now, seen): the patterns in order; the first error of
\* GlobWalk ends it.
RECURSIVE scanPipeline(_, _, _)
scanPipeline(p, acc, patterns) ==
    IF patterns = <<>> THEN acc
    ELSE IF GlobWalkErr(Head(patterns)) # "nil"
         THEN [acc EXCEPT !.err = GlobWalkErr(Head(patterns))]
         ELSE scanPipeline(p, walk(p, acc, GlobWalkFiles(Head(patterns))),
                           Tail(patterns))

\* The loop of ScanAll over the pipelines; an error ends it.
RECURSIVE scanPipelines(_, _)
scanPipelines(acc, pipelines) ==
    IF pipelines = <<>> THEN acc
    ELSE LET r == scanPipeline(Head(pipelines), acc, Head(pipelines).Paths) IN
         IF r.err # "nil" THEN r ELSE scanPipelines(r, Tail(pipelines))

\* ScanAll(pipelines): nil and the error, or the sorted candidates.
ScanAll(pipelines) ==
    LET r == scanPipelines([out |-> <<>>, seen |-> {}, err |-> "nil"], pipelines) IN
    IF r.err # "nil" THEN [candidates |-> <<>>, err |-> r.err]
    ELSE [candidates |-> SliceStable(r.out), err |-> "nil"]

----------------------------------------------------------------------------
(* The scanner alone: one call of ScanAll on a configuration and a tree *)

Unset == [set |-> FALSE, d |-> 0]

Ages == {Unset} \cup {[set |-> TRUE, d |-> d] : d \in 0..2}

\* A pattern that matches the files of set S, walked in lexical order, each
\* with the modification time mtime gives it.
Pattern(S, mtime, fault) ==
    [walk |-> SelectSeq([i \in 1..MaxFiles |-> [Path |-> i, ModTime |-> mtime[i]]],
                        LAMBDA f : f.Path \in S),
     fault |-> fault]

Pipeline(name, priority, direction, min, max, patterns) ==
    [Name |-> name, Priority |-> priority, Direction |-> direction,
     MinAge |-> min, MaxAge |-> max, Paths |-> patterns]

Directions == {"oldest", "newest"}

\* Two pipelines of one pattern each over the same directory.
OverlapInputs ==
    {<<Pipeline("hls", pr[1], dir[1], Unset, Unset, <<Pattern(S1, mtime, "none")>>),
       Pipeline("mp4", pr[2], dir[2], Unset, Unset, <<Pattern(S2, mtime, "none")>>)>> :
        pr \in [1..2 -> 1..2], dir \in [1..2 -> Directions],
        S1 \in SUBSET (1..MaxFiles), S2 \in SUBSET (1..MaxFiles),
        mtime \in [1..MaxFiles -> 1..MaxMTime]}

\* One pipeline with age bounds over two files, modified before Now, at
\* Now, or after it.
AgeInputs ==
    {<<Pipeline("hls", 1, "oldest", min, max,
                <<Pattern({1, 2}, [i \in 1..MaxFiles |-> IF i = 1 THEN m1 ELSE m2],
                          "none")>>)>> :
        min \in Ages, max \in Ages, m1 \in 1..(Now + 1), m2 \in 1..(Now + 1)}

\* Two pipelines, three roots, each readable, unreadable or malformed.
FaultInputs ==
    {<<Pipeline("hls", 1, "oldest", Unset, Unset,
                <<Pattern(S[1], [i \in 1..MaxFiles |-> i], fault[1]),
                  Pattern(S[2], [i \in 1..MaxFiles |-> i], fault[2])>>),
       Pipeline("mp4", 2, "oldest", Unset, Unset,
                <<Pattern(S[3], [i \in 1..MaxFiles |-> i], fault[3])>>)>> :
        S \in [1..3 -> SUBSET (1..2)],
        fault \in [1..3 -> {"none", "io", "pattern"}]}

\* The walk of a large directory: files first .. last, whose modification
\* times rise or fall with the walk.
LongWalk(first, last, rising) ==
    [i \in 1..(last - first + 1) |->
        [Path |-> first + i - 1,
         ModTime |-> IF rising THEN i ELSE last - first + 2 - i]]

\* Two pipelines over disjoint directories with MaxScan - 1 or MaxScan files
\* between them.
LongInputs ==
    {<<Pipeline("hls", pr[1], dir[1], Unset, Unset,
                <<[walk |-> LongWalk(1, a, rising[1]), fault |-> "none"]>>),
       Pipeline("mp4", pr[2], dir[2], Unset, Unset,
                <<[walk |-> LongWalk(a + 1, n, rising[2]), fault |-> "none"]>>)>> :
        n \in (MaxScan - 1)..MaxScan, a \in 0..MaxScan,
        pr \in [1..2 -> 1..2], dir \in [1..2 -> Directions],
        rising \in [1..2 -> BOOLEAN]}

\* A call of ScanAll about to be made with configuration in.
ScanCalls(inputs) == {[op |-> "scan", pipelines |-> in] : in \in inputs}

ScanInit ==
    /\ phase = "boot"
    /\ rows = [p \in Paths |-> NoRow]
    /\ size = 1
    /\ shrinkGrace = DefaultGrace
    /\ killOrder = "oldest"
    /\ workers = [p \in Paths |-> 0]
    /\ shrinkTimer = FALSE
    /\ timers = <<>>
    /\ procs = <<>>
    /\ dpc = "idle"
    /\ dFresh = <<>>
    /\ dLeft = 0
    /\ pausing = {}
    /\ lastStart = NoStart
    /\ clock = 0
    /\ \/ lastCall \in ScanCalls(OverlapInputs)
       \/ lastCall \in ScanCalls(AgeInputs)
       \/ lastCall \in ScanCalls(FaultInputs)
       \/ lastCall \in ScanCalls(LongInputs)

\* candidates, err := scanner.ScanAll(d.cfg.Pipelines)
ExecScanAll ==
    /\ lastCall.op = "scan"
    /\ lastCall' = [op |-> "ScanAll", pipelines |-> lastCall.pipelines,
                    result |-> ScanAll(lastCall.pipelines)]
    /\ UNCHANGED <<phase, rows, poolVars, procs, daemonVars, pausing, lastStart, clock>>

ScanNext == ExecScanAll

ScanSpec == ScanInit /\ [][ScanNext]_vars

----------------------------------------------------------------------------
(* The task-id codec: base64.URLEncoding over the bytes of the path *)

\* The alphabet of base64.URLEncoding; sextet v is written encodeURL[v + 1].
encodeURL ==
    <<"A", "B", "C", "D", "E", "F", "G", "H", "I", "J", "K", "L", "M",
      "N", "O", "P", "Q", "R", "S", "T", "U", "V", "W", "X", "Y", "Z",
      "a", "b", "c", "d", "e", "f", "g", "h", "i", "j", "k", "l", "m",
      "n", "o", "p", "q", "r", "s", "t", "u", "v", "w", "x", "y", "z",
      "0", "1", "2", "3", "4", "5", "6", "7", "8", "9", "-", "_">>

padChar == "="

Sym(v) == encodeURL[v + 1]

InAlphabet(c) == \E i \in 1..Len(encodeURL) : encodeURL[i] = c

Val(c) == (CHOOSE i \in 1..Len(encodeURL) : encodeURL[i] = c) - 1

\* The four symbols of the 24 bits val.
Quantum(val) ==
    <<Sym(val \div 262144), Sym((val \div 4096) % 64),
      Sym((val \div 64) % 64), Sym(val % 64)>>

\* An encoding without padding (base64.RawURLEncoding).
RECURSIVE EncodeToStringRaw(_)
EncodeToStringRaw(src) ==
    IF Len(src) = 0 THEN <<>>
    ELSE IF Len(src) >= 3
    THEN Quantum(src[1] * 65536 + src[2] * 256 + src[3])
            \o EncodeToStringRaw(SubSeq(src, 4, Len(src)))
    ELSE IF Len(src) = 2
    THEN SubSeq(Quantum(src[1] * 65536 + src[2] * 256), 1, 3)
    ELSE SubSeq(Quantum(src[1] * 65536), 1, 2)

\* base64.URLEncoding.EncodeToString(src): three bytes to four symbols, the
\* last one or two bytes to two or three symbols and padding.
RECURSIVE EncodeToString(_)
EncodeToString(src) ==
    IF Len(src) = 0 THEN <<>>
    ELSE IF Len(src) >= 3
    THEN Quantum(src[1] * 65536 + src[2] * 256 + src[3])
            \o EncodeToString(SubSeq(src, 4, Len(src)))
    ELSE IF Len(src) = 2
    THEN SubSeq(Quantum(src[1] * 65536 + src[2] * 256), 1, 3) \o <<padChar>>
    ELSE SubSeq(Quantum(src[1] * 65536), 1, 2) \o <<padChar, padChar>>

Corrupt == [b |-> <<>>, err |-> "corrupt"]

\* The decoding of the symbols s after the bytes acc: quanta of four
\* symbols, padding only at the end of the last quantum.
RECURSIVE decode(_, _)
decode(s, acc) ==
    IF s = <<>> THEN [b |-> acc, err |-> "nil"]
    ELSE IF Len(s) < 4 THEN Corrupt
    ELSE IF ~InAlphabet(s[1]) \/ ~InAlphabet(s[2]) THEN Corrupt
    ELSE LET v12 == Val(s[1]) * 262144 + Val(s[2]) * 4096
             rest == SubSeq(s, 5, Len(s))
         IN  IF s[3] = padChar
             THEN IF s[4] = padChar /\ rest = <<>>
                  THEN [b |-> acc \o <<v12 \div 65536>>, err |-> "nil"]
                  ELSE Corrupt
             ELSE IF ~InAlphabet(s[3]) THEN Corrupt
             ELSE LET v123 == v12 + Val(s[3]) * 64 IN
                  IF s[4] = padChar
                  THEN IF rest = <<>>
                       THEN [b |-> acc \o <<v123 \div 65536, (v123 \div 256) % 256>>,
                             err |-> "nil"]
                       ELSE Corrupt
                  ELSE IF ~InAlphabet(s[4]) THEN Corrupt
                  ELSE LET v == v123 + Val(s[4]) IN
                       decode(rest, acc \o <<v \div 65536, (v \div 256) % 256, v % 256>>)

\* base64.URLEncoding.DecodeString(s); line breaks are skipped.
DecodeString(s) == decode(SelectSeq(s, LAMBDA c : c \notin {"\n", "\r"}), <<>>)

\* func taskID(path string) string
taskID(path) == EncodeToString(path)

\* func PathFromTaskID(id string) (string, error)
PathFromTaskID(id) ==
    LET r == DecodeString(id) IN
    IF r.err # "nil" THEN [path |-> <<>>, err |-> "invalid task id"]
    ELSE [path |-> r.b, err |-> "nil"]

\* The bytes paths are made of here: NUL, '/', 'a' and 0xFF.
PathBytes == {0, 47, 97, 255}

\* The paths of at most MaxPathLen bytes.
BytePaths == UNION {[1..n -> PathBytes] : n \in 0..MaxPathLen}

CodecInit ==
    /\ phase = "boot"
    /\ rows = [p \in Paths |-> NoRow]
    /\ size = 1
    /\ shrinkGrace = DefaultGrace
    /\ killOrder = "oldest"
    /\ workers = [p \in Paths |-> 0]
    /\ shrinkTimer = FALSE
    /\ timers = <<>>
    /\ procs = <<>>
    /\ dpc = "idle"
    /\ dFresh = <<>>
    /\ dLeft = 0
    /\ pausing = {}
    /\ lastStart = NoStart
    /\ clock = 0
    /\ lastCall \in {[op |-> "paths", p |-> p, q |-> q] : p \in BytePaths, q \in BytePaths}

\* The ids Dispatch gives two paths, and the path the control API gets back
\* from the first id.
ExecCodec ==
    /\ lastCall.op = "paths"
    /\ lastCall' = [op |-> "taskID", p |-> lastCall.p, q |-> lastCall.q,
                    idp |-> taskID(lastCall.p), idq |-> taskID(lastCall.q),
                    back |-> PathFromTaskID(taskID(lastCall.p))]
    /\ UNCHANGED <<phase, rows, poolVars, procs, daemonVars, pausing, lastStart, clock>>

CodecNext == ExecCodec

CodecSpec == CodecInit /\ [][CodecNext]_vars

----------------------------------------------------------------------------
(* Daemon.Stop beside the run loop and the pool *)

\* A loop that leaves in the middle of a tick.
LoopLeavesAnywhere == phase = "ticking"

\* run() is at its select, where it can take the case <-d.stopCh: the
\* initial scan and every tick begun since have returned.
LoopLeaves == phase = "ticking" /\ dpc = "idle"

\* main calls d.Stop(): close(d.stopCh).  Stop then blocks on d.doneCh.
StopCall ==
    /\ phase \in {"started", "ticking"}
    /\ lastCall = NoCall
    /\ lastCall' = [op |-> "Stop"]
    /\ UNCHANGED <<phase, rows, poolVars, procs, daemonVars, pausing, lastStart, clock>>

\* run() takes the case <-d.stopCh: d.ticker.Stop(), return, and the
\* deferred close(d.doneCh) lets Stop return.  While the ticker's channel is
\* ready as well the select may take a tick instead.
StopReturn ==
    /\ lastCall.op = "Stop"
    /\ LoopLeaves
    /\ phase' = "stopped"
    /\ UNCHANGED <<rows, poolVars, procs, daemonVars, pausing, lastStart, callVars>>

\* run() begins with a scan, before its first select.
InitialScan == phase = "started" /\ Tick

StopInit == WorkerInit

StopNext ==
    \/ Startup
    \/ Tick
    \/ DispatchNext
    \/ StartMark
    \/ StartSpawn
    \/ \E pid \in Pids : WorkerExit(pid)
    \/ \E pid \in Pids : CompletionCallback(pid)
    \/ StopCall
    \/ StopReturn

\* The daemon's thread goes on with the tick it is in, and the select, which
\* chooses among its ready cases at random, takes <-d.stopCh in the end.
StopSpec ==
    /\ StopInit
    /\ [][StopNext]_vars
    /\ WF_vars(InitialScan)
    /\ WF_vars(DispatchNext)
    /\ WF_vars(StartMark)
    /\ WF_vars(StartSpawn)
    /\ SF_vars(StopReturn)

----------------------------------------------------------------------------
(* The converter handler of the overseer build: converterHandler.scan *)

\* The handler runs under a hub that owns the workers; its scan loop is one
\* thread, whose position dpc and remaining paths dFresh hold here, and the
\* callbacks of the workers run beside it.

\* h.store.IsCompleted(path), h.store.IsInFlight(path): one query each;
\* false when the path has no row.
IsCompleted(r) == r.status = "completed"

IsInFlight(r) == r.status = "in_flight"

\* The loop goes on to the next path, or the scan ends.
ConverterAdvance ==
    /\ dFresh' = Tail(dFresh)
    /\ dpc' = IF Tail(dFresh) = <<>> THEN "idle" ELSE "is_completed"

\* paths, err := scanner.ScanAll(...): the files found, in scan order; a
\* scan error ends the cycle.
ConverterScanAll ==
    /\ dpc = "idle"
    /\ \E found \in SUBSET Paths, failed \in BOOLEAN :
          LET paths == IF failed THEN <<>>
                       ELSE SelectSeq(ScanOrder, LAMBDA p : p \in found)
          IN  /\ dFresh' = paths
              /\ dpc' = IF paths = <<>> THEN "idle" ELSE "is_completed"
              /\ lastCall' = [op |-> "ScanAll", path |-> "-"]
    /\ UNCHANGED <<phase, rows, poolVars, procs, dLeft, pausing, lastStart, clock>>

\* if h.store.IsCompleted(path) || ...: the first operand.
ConverterIsCompleted ==
    /\ dpc = "is_completed"
    /\ IF IsCompleted(rows[Head(dFresh)])
       THEN /\ ConverterAdvance
            /\ lastCall' = [op |-> "skip", path |-> Head(dFresh)]
       ELSE /\ dpc' = "is_in_flight"
            /\ UNCHANGED <<dFresh, lastCall>>
    /\ UNCHANGED <<phase, rows, poolVars, procs, dLeft, pausing, lastStart, clock>>

\* ... || h.store.IsInFlight(path) { continue }: the second operand.
ConverterIsInFlight ==
    /\ dpc = "is_in_flight"
    /\ IF IsInFlight(rows[Head(dFresh)])
       THEN /\ ConverterAdvance
            /\ lastCall' = [op |-> "skip", path |-> Head(dFresh)]
       ELSE /\ dpc' = "upsert"
            /\ UNCHANGED <<dFresh, lastCall>>
    /\ UNCHANGED <<phase, rows, poolVars, procs, dLeft, pausing, lastStart, clock>>

\* UpsertQueued(path, h.actionName), and unless it failed
\* submit.Submit(h.actionName, "", {"file": path}), whose error is logged.
ConverterSubmit ==
    /\ dpc = "upsert"
    /\ LET c == Head(dFresh) IN
       \E failed \in BOOLEAN :
          /\ rows' = IF failed THEN rows
                     ELSE [rows EXCEPT ![c] = UpsertQueued(rows[c], ScanPipeline(c), clock)]
          /\ lastCall' = [op |-> IF failed THEN "upsert_failed" ELSE "Submit",
                          path |-> c, was |-> rows[c].status]
    /\ ConverterAdvance
    /\ UNCHANGED <<phase, poolVars, procs, dLeft, pausing, lastStart, clock>>

\* The hub starts the task of a queued file: converterHandler.Start calls
\* MarkInFlight before it starts the worker.
ConverterStart(p) ==
    /\ rows[p].status = "queued"
    /\ rows' = [rows EXCEPT ![p] = MarkInFlight(rows[p])]
    /\ UNCHANGED <<phase, poolVars, procs, daemonVars, pausing, lastStart, callVars>>

\* The worker of an in_flight file exits: the wrapped OnExited callback
\* calls MarkCompleted for exit code 0 and MarkErrored otherwise.
ConverterExited(p) ==
    /\ rows[p].status = "in_flight"
    /\ \E exitCode \in {0, 1} :
          /\ exitCode # 0 => rows[p].error_count < MaxErrors
          /\ rows' = [rows EXCEPT ![p] = IF exitCode = 0 THEN MarkCompleted(rows[p])
                                      ELSE MarkErrored(rows[p], ErrText("exit"))]
    /\ UNCHANGED <<phase, poolVars, procs, daemonVars, pausing, lastStart, callVars>>

\* The handler on an existing ledger.
ConverterInit ==
    /\ phase = "started"
    /\ rows \in [Paths -> StoredRows]
    /\ size = 1
    /\ shrinkGrace = DefaultGrace
    /\ killOrder = "oldest"
    /\ workers = [p \in Paths |-> 0]
    /\ shrinkTimer = FALSE
    /\ timers = <<>>
    /\ procs = <<>>
    /\ dpc = "idle"
    /\ dFresh = <<>>
    /\ dLeft = 0
    /\ pausing = {}
    /\ lastStart = NoStart
    /\ clock = 0
    /\ lastCall = NoCall

ConverterNext ==
    \/ ConverterScanAll
    \/ ConverterIsCompleted
    \/ ConverterIsInFlight
    \/ ConverterSubmit
    \/ \E p \in Paths : ConverterStart(p)
    \/ \E p \in Paths : ConverterExited(p)

ConverterSpec == ConverterInit /\ [][ConverterNext]_vars

----------------------------------------------------------------------------
(* Pool.mu: the goroutine of Pool.wait step by step, beside the callers of  *)
(* the pool.  A waiter's position is the st of its subprocess: "running",   *)
(* "waited" (cmd.Wait() has returned), "locked" (inside p.mu.Lock() ..      *)
(* p.mu.Unlock()), "callback" (about to call onComplete), "done".           *)

\* A wait that unlocks only after the callback has returned.
HoldsThroughCallback(st) == st \in {"locked", "callback"}

\* The waiter holds p.mu at position st.
HoldsAt(st) == st = "locked"

Holder(pid) == pid \in 1..Len(procs) /\ HoldsAt(procs[pid].st)

\* Every other critical section of Pool.mu is inside one step.
MutexFree == \A pid \in Pids : ~Holder(pid)

\* err := w.cmd.Wait()
WaitReturns(pid) ==
    /\ pid \in 1..Len(procs)
    /\ procs[pid].st = "running"
    /\ \E err \in (IF procs[pid].cancelled THEN {"killed"} ELSE {}) \cup {"nil", "exit"} :
          procs' = [procs EXCEPT ![pid] =
                       [path |-> procs[pid].path, st |-> "waited",
                        cancelled |-> FALSE, err |-> err]]
    /\ UNCHANGED <<phase, rows, poolVars, daemonVars, pausing, lastStart, callVars>>

\* p.mu.Lock()
WaitLock(pid) ==
    /\ pid \in 1..Len(procs)
    /\ procs[pid].st = "waited"
    /\ MutexFree
    /\ procs' = [procs EXCEPT ![pid].st = "locked"]
    /\ UNCHANGED <<phase, rows, poolVars, daemonVars, pausing, lastStart, callVars>>

\* delete(p.workers, w.id); p.mu.Unlock(); w.cancel() and the log line.
WaitDelete(pid) ==
    /\ pid \in 1..Len(procs)
    /\ procs[pid].st = "locked"
    /\ workers' = [workers EXCEPT ![procs[pid].path] = 0]
    /\ procs' = [procs EXCEPT ![pid].st = "callback"]
    /\ UNCHANGED <<phase, rows, size, shrinkGrace, killOrder, shrinkTimer, timers,
                   daemonVars, pausing, lastStart, callVars>>

\* p.onComplete(path, pipeline, err).  daemon.OnComplete uses the store
\* only; a callback that asks the pool (usesPool), as for ActiveCount, has to
\* take p.mu first.
WaitCallback(pid) ==
    /\ \E usesPool \in BOOLEAN :
          /\ usesPool => MutexFree
          /\ CompletionCallback(pid)

\* One call of the pool's API or of Dispatch: a critical section of p.mu.
Locking(A) == MutexFree /\ A

MutexInit == WorkerInit

MutexNext ==
    \/ Startup
    \/ Locking(Tick)
    \/ Locking(DispatchNext)
    \/ StartMark
    \/ Locking(StartSpawn)
    \/ \E pid \in Pids : WaitReturns(pid)
    \/ \E pid \in Pids : WaitLock(pid)
    \/ \E pid \in Pids : WaitDelete(pid)
    \/ \E pid \in Pids : WaitCallback(pid)
    \/ \E p \in Paths : Locking(StopTask(p))
    \/ \E n \in 0..MaxSize : Locking(PatchSize(n, ""))
    \/ Locking(KillExcess)

\* The goroutine of Pool.wait runs on once cmd.Wait() has returned.
MutexSpec ==
    /\ MutexInit
    /\ [][MutexNext]_vars
    /\ \A pid \in Pids :
          /\ WF_vars(WaitLock(pid))
          /\ WF_vars(WaitDelete(pid))
          /\ WF_vars(WaitCallback(pid))

----------------------------------------------------------------------------
(* Properties *)

\* The subprocesses of path p that have been started and not yet reaped.
LiveProcs(p) ==
    {pid \in 1..Len(procs) : procs[pid].st = "running" /\ procs[pid].path = p}

\* A step starts a worker for p.
Started(p) ==
    /\ Len(procs') = Len(procs) + 1
    /\ procs'[Len(procs')].path = p

\* C1: at most one live worker per path.  Every path has at most one
\* subprocess that is started and not reaped, and that subprocess is the one
\* Pool.workers holds for the path.
C1_OneLiveWorkerPerPath ==
    \A p \in Paths :
        /\ Cardinality(LiveProcs(p)) <= 1
        /\ \A pid \in LiveProcs(p) : workers[p] = pid

\* Dispatch is about to try a candidate whose worker is still running, with a
\* free slot left.
C1_Witness ==
    /\ dpc = "loop"
    /\ dLeft > 0
    /\ dFresh # <<>>
    /\ LiveProcs(Head(dFresh)) # {}

\* C2: completed is absorbing.  No step changes the status of a row that is
\* completed.
C2_CompletedAbsorbing ==
    [][\A p \in Paths :
          rows[p].status = "completed" => rows'[p].status = "completed"]_vars

\* The lifecycle graph of the ledger.
LifecycleEdges ==
    { <<"absent", "queued">>, <<"queued", "in_flight">>,
      <<"in_flight", "completed">>, <<"in_flight", "errored">>,
      <<"errored", "queued">>, <<"queued", "paused">>, <<"paused", "queued">> }

\* C3: every change of a row's status is an edge of the lifecycle graph.
C3_LifecycleEdgesOnly ==
    [][\A p \in Paths :
          rows'[p].status # rows[p].status
              => <<rows[p].status, rows'[p].status>> \in LifecycleEdges]_vars

\* The workers in the map that nobody has cancelled yet.
Uncancelled == {p \in Paths : workers[p] # 0 /\ ~procs[workers[p]].cancelled}

\* C4: the pool is never over capacity unless a shrink timer is pending.
\* Workers already cancelled (by an expired shrink timer or by a stop) and
\* still on their way out are not counted against the pool.
C4_WithinCapacity ==
    Cardinality(Uncancelled) <= size \/ shrinkTimer

\* C5: a paused row stays paused until it is resumed; in particular no
\* completion callback (the only writer of errored and completed) overwrites
\* paused.
C5_PausedSurvivesCallback ==
    [][\A p \in Paths :
          rows[p].status = "paused"
              => rows'[p].status \notin {"errored", "completed"}]_vars

\* C6: no tick dispatches a path whose row is paused: while the status is
\* paused the row is not marked in_flight and no worker is started for it.
C6_NoDispatchWhilePaused ==
    [][\A p \in Paths :
          rows[p].status = "paused"
              => rows'[p].status # "in_flight" /\ ~Started(p)]_vars

\* C7: a path whose subprocess failed to start does not remain in_flight:
\* by the end of the tick its row has left in_flight.
C7_SpawnFailureNotStuck ==
    (dpc = "idle" /\ lastStart.outcome = "spawn_failed")
        => rows[lastStart.path].status # "in_flight"

\* C8: when the daemon has been started and its first tick has not begun, no
\* row is in_flight.
C8_NoInFlightBeforeFirstTick ==
    phase = "started" => \A p \in Paths : rows[p].status # "in_flight"

\* C9: after startup, a row that is in_flight has its worker in Pool.workers.
C9_InFlightHasWorker ==
    phase # "boot"
        => \A p \in Paths : rows[p].status = "in_flight" => workers[p] # 0

\* C10: a subprocess is spawned for p only right after Store.MarkInFlight(p)
\* returned success for this very candidate; after a failed MarkInFlight
\* nothing is spawned.
C10_MarkBeforeSpawn ==
    [][\A p \in Paths :
          Started(p) => lastStart = [path |-> p, outcome |-> "marked"]]_vars

\* A worker has just been started for a path marked in_flight.
C10_Witness ==
    \E p \in Paths :
        /\ LiveProcs(p) # {}
        /\ rows[p].status = "in_flight"
        /\ lastStart = NoStart
        /\ dpc = "loop"

\* The finished subprocesses of path p whose completion callback has not
\* been made yet.
AwaitingCallback(p) ==
    {pid \in 1..Len(procs) : procs[pid].st = "callback" /\ procs[pid].path = p}

\* C11: the completion callback of a finished worker of p is made before a
\* later dispatch starts a new worker for p: no step starts a worker for a
\* path that has a finished worker still awaiting its callback.
C11_CallbackBeforeRedispatch ==
    [][\A p \in Paths : Started(p) => AwaitingCallback(p) = {}]_vars

\* C12: the ledger is updated before the slot is released: a finished worker
\* stays in Pool.workers until its completion callback has been made.
C12_UpdateBeforeRelease ==
    \A pid \in 1..Len(procs) :
        procs[pid].st = "callback" => workers[procs[pid].path] = pid

\* The status OnComplete writes for the result err of cmd.Wait().
CallbackStatus(err) == IF err = "nil" THEN "completed" ELSE "errored"

\* The step is the completion callback of subprocess pid.
CallbackOf(pid) == procs[pid].st = "callback" /\ procs'[pid].st = "done"

Executes(op, p) == lastCall'.op = op /\ lastCall'.path = p

\* C14: error_count never decreases: MarkErrored adds exactly 1 to the
\* error_count of its row, and every other statement (and every statement on
\* another path) leaves error_count as it was.
C14_ErrorCountMonotonic ==
    [][\A p \in Paths :
          /\ rows'[p].error_count >= rows[p].error_count
          /\ rows'[p].error_count =
                IF Executes("MarkErrored", p) /\ rows[p].status # "absent"
                THEN rows[p].error_count + 1
                ELSE rows[p].error_count]_vars

\* A row that has failed MaxErrors times has just been resumed, and keeps its
\* count.
C14_Witness ==
    \E p \in Paths :
        /\ lastCall = [op |-> "MarkResumed", path |-> p]
        /\ rows[p].status = "queued"
        /\ rows[p].error_count = MaxErrors

\* C15: UpsertQueued on a row that is queued, in_flight or completed changes
\* nothing in the row.
C15_UpsertNoOp ==
    [][\A p \in Paths :
          (Executes("UpsertQueued", p)
             /\ rows[p].status \in {"queued", "in_flight", "completed"})
              => rows'[p] = rows[p]]_vars

\* C16: UpsertQueued(P, X) on an absent path inserts (P, X, queued,
\* error_count 0, queued_at now); on a row that is errored or paused it sets
\* the status to queued and queued_at to now, and keeps everything else,
\* pipeline_name and error_count included.  No other row is touched.
C16_UpsertInsertsOrRequeues ==
    [][\A p \in Paths :
          Executes("UpsertQueued", p) =>
            /\ rows[p].status = "absent" =>
                  rows'[p] = [status |-> "queued", error_count |-> 0,
                              error_message |-> "null",
                              pipeline_name |-> lastCall'.pipeline,
                              queued_at |-> clock]
            /\ rows[p].status \in {"errored", "paused"} =>
                  rows'[p] = [rows[p] EXCEPT !.status = "queued",
                                             !.queued_at = clock]
            /\ \A q \in Paths \ {p} : rows'[q] = rows[q]]_vars

\* A row that has failed under one pipeline has just been requeued by an
\* UpsertQueued naming another pipeline, at a later time than it was first
\* queued.
C16_Witness ==
    \E p \in Paths :
        /\ lastCall.op = "UpsertQueued"
        /\ lastCall.path = p
        /\ rows[p].status = "queued"
        /\ rows[p].error_count > 0
        /\ rows[p].error_message # "null"
        /\ rows[p].pipeline_name # lastCall.pipeline
        /\ rows[p].queued_at = clock
        /\ clock > 0

\* The step is a PATCH /pool request.
Patched == lastCall' # lastCall /\ lastCall'.op = "Resize"

\* C17: after a Resize below the active count, once the grace timer has
\* fired and the pool has come down to its size, it stays within its size as
\* long as no other Resize is made.
C17_StaysWithinShrunkSize ==
    [][(/\ lastCall.op = "Resize"
        /\ lastCall.armed # "no"
        /\ lastCall' = lastCall
        /\ size' = size
        /\ timers = <<>>
        /\ ActiveCount <= size)
          => ActiveCount' <= size]_vars

\* The pids of the workers in Pool.workers.
ActivePids == {workers[p] : p \in {q \in Paths : workers[q] # 0}}

\* The step is the firing of a shrink timer.
TimerFires == Len(timers') < Len(timers)

\* C18: when a shrink timer fires with k = active - size > 0, exactly k
\* workers are cancelled: the k started last under kill order youngest, the k
\* started first under oldest; every other worker is left as it was.  With
\* k <= 0 nothing is cancelled.
C18_KillExcessByOrder ==
    [][TimerFires =>
         LET k == ActiveCount - size IN
         IF k <= 0 THEN procs' = procs
         ELSE \E kill \in SUBSET ActivePids :
                 /\ Cardinality(kill) = k
                 /\ \A x \in kill, o \in ActivePids \ kill :
                       IF killOrder = "youngest" THEN x > o ELSE x < o
                 /\ \A pid \in kill : procs'[pid].cancelled
                 /\ \A pid \in (1..Len(procs)) \ kill : procs'[pid] = procs[pid]]_vars

\* Two workers in a pool of size 1 and kill order youngest, the timer gone:
\* the worker started last is cancelled, the one started first runs on.
C18_Witness ==
    /\ killOrder = "youngest"
    /\ size = 1
    /\ timers = <<>>
    /\ Len(procs) = 2
    /\ ActivePids = {1, 2}
    /\ procs[2].cancelled
    /\ ~procs[1].cancelled

\* C19: a PATCH /pool with grace 0 that finds the pool over the new size arms
\* the shrink timer with delay 0.
C19_ZeroGraceArmsZero ==
    [][(Patched /\ lastCall'.grace = 0 /\ lastCall'.armed # "no")
          => timers'[Len(timers')] = 0]_vars

\* C20: at most one shrink timer is pending, and it is the one Pool.shrinkTimer
\* refers to; a Resize that finds the pool over its new size while a timer is
\* pending leaves exactly one timer pending, the one it has just armed.
C20_OneShrinkTimer ==
    /\ [](Len(timers) <= 1 /\ (shrinkTimer <=> Len(timers) = 1))
    /\ [][(Patched /\ lastCall'.armed = "replaced")
             => timers' = <<shrinkGrace'>> /\ shrinkTimer']_vars

\* A Resize has just replaced a pending timer by one with another grace.
C20_Witness ==
    /\ lastCall = [op |-> "Resize", grace |-> MaxGrace, armed |-> "replaced"]
    /\ timers = <<MaxGrace>>
    /\ shrinkTimer
    /\ ActiveCount > size

----------------------------------------------------------------------------
(* Shutdown, the tick's filter, the completion callback, Dispatch *)

\* C21: when Pool.Shutdown has returned, on either branch, no worker is
\* left in the pool's map (ActiveCount() = 0).
C21_ShutdownReturnsEmpty == phase = "down" => ActiveCount = 0


\* A step is a recorded tick.
TickStep == lastCall'.op = "tick" /\ lastCall'.n = TickCount + 1

\* Candidate p is in the list the tick hands to Pool.Dispatch.
Handed(p) == \E i \in 1..Len(lastCall'.handed) : lastCall'.handed[i] = p

C23_StoreErrorSkipsCandidate ==
    [][TickStep =>
         \A p \in lastCall'.found :
            lastCall'.io[p] # "ok" => ~Handed(p) /\ rows'[p] = rows[p]]_vars

\* The pipeline's delete_on_success.  PipelineConfig (name, priority, paths,
\* direction, min_age, max_age, target, command, extra) has no such field:
\* it is unset for every pipeline the daemon can be configured with.
DeleteOnSuccess(pipeline) == FALSE

\* C24: the callback of a successful worker marks the path completed, and
\* the input file is removed only after a successful exit of a worker whose
\* pipeline has delete_on_success set; after a failed worker it is never
\* removed.
C24_InputKeptUnlessDeleteOnSuccess ==
    [][\A pid \in 1..Len(procs) :
          CallbackOf(pid) =>
             LET p == procs[pid].path
                 err == procs[pid].err IN
             /\ err = "nil" /\ lastCall'.stored => rows'[p].status = "completed"
             /\ lastCall'.removed =>
                   err = "nil" /\ DeleteOnSuccess(rows[p].pipeline_name)]_vars

\* A step in which startWorker returns before MarkInFlight: the candidate at
\* the head of Dispatch's list is not running, and it is dropped with the
\* loop going on (unknown pipeline, merge or render error).
RenderFails ==
    /\ dpc = "loop" /\ dpc' = "loop"
    /\ dFresh # <<>> /\ dLeft > 0
    /\ workers[Head(dFresh)] = 0
    /\ dFresh' = Tail(dFresh)

\* C26: when rendering the target path or the command of a candidate fails,
\* the path's status becomes errored and an error message is recorded.
C26_RenderErrorMarksErrored ==
    [][RenderFails =>
         LET c == Head(dFresh) IN
         /\ rows'[c].status = "errored"
         /\ rows'[c].error_message # "null"]_vars

DispatchStep == dpc # "idle" /\ <<dpc, dFresh, dLeft>>' # <<dpc, dFresh, dLeft>>

\* C27: Dispatch is entered with the list the tick hands over and with
\* size - ActiveCount slots; it consumes the list from its head; a worker is
\* started only for the head of the list, while a slot is left, and takes
\* one slot; a candidate that is already active is dropped with no worker
\* started and no slot taken; and every candidate that leaves the list was
\* started, was already active, or failed to start (no worker, no slot
\* taken).
C27_DispatchInOrderWithinSlots ==
    [][/\ TickStep /\ dpc' = "loop" =>
             /\ dFresh' = lastCall'.handed
             /\ dLeft' = size - ActiveCount
       /\ \A p \in Paths :
             Started(p) =>
                /\ DispatchStep
                /\ p = Head(dFresh)
                /\ workers[p] = 0
                /\ dLeft > 0
                /\ dLeft' = dLeft - 1
       /\ DispatchStep =>
             /\ dLeft >= 0
             /\ dpc' = "idle" \/ dFresh' \in {dFresh, Tail(dFresh)}
             /\ dFresh # <<>> /\ dFresh' = Tail(dFresh) =>
                   LET c == Head(dFresh) IN
                   \/ Started(c)
                   \/ /\ workers[c] # 0
                      /\ dLeft' = dLeft /\ procs' = procs /\ workers' = workers
                   \/ /\ workers[c] = 0
                      /\ dLeft' = dLeft /\ procs' = procs /\ workers' = workers
             /\ dpc = "loop" /\ dFresh # <<>> /\ dLeft > 0
                   /\ workers[Head(dFresh)] # 0 =>
                   /\ dFresh' = Tail(dFresh)
                   /\ dLeft' = dLeft /\ procs' = procs /\ workers' = workers]_vars

\* A tick handed over both paths with one slot free: the first, already
\* active, was passed over without taking the slot, the second was started.
C27_Witness ==
    /\ lastCall.op = "tick"
    /\ lastCall.handed = ScanOrder
    /\ size = 2
    /\ workers["/in/a.ts"] = 1
    /\ rows["/in/a.ts"].status = "queued"
    /\ workers["/in/b.ts"] = 2
    /\ dpc = "loop"
    /\ dLeft = 0

----------------------------------------------------------------------------
(* Stop, pause and resume *)

\* A step is a recorded call of the task handler op for path p.
Handles(op, p) ==
    lastCall' # lastCall /\ lastCall'.op = op /\ lastCall'.path = p

\* C28: StopWorker for an id with no active worker returns an error and
\* changes neither the pool nor the ledger; for an active id it cancels
\* that worker and leaves every other worker, the map, the pool size and the
\* ledger as they were.
C28_StopWorkerOnlyThatWorker ==
    [][\A p \in Paths :
          Handles("stop", p) =>
             /\ UNCHANGED <<rows, poolVars>>
             /\ Len(procs') = Len(procs)
             /\ IF workers[p] = 0
                THEN /\ lastCall'.result = "not_found"
                     /\ procs' = procs
                ELSE /\ lastCall'.result = "stopping"
                     /\ procs'[workers[p]].cancelled
                     /\ \A pid \in 1..Len(procs) :
                           pid # workers[p] => procs'[pid] = procs[pid]]_vars

\* Both paths have a running worker; the one of /in/a.ts has just been
\* stopped, the other has not been cancelled.
C28_Witness ==
    /\ lastCall.op = "stop"
    /\ lastCall.path = "/in/a.ts"
    /\ lastCall.result = "stopping"
    /\ workers["/in/a.ts"] # 0
    /\ workers["/in/b.ts"] # 0
    /\ procs[workers["/in/a.ts"]].cancelled
    /\ ~procs[workers["/in/b.ts"]].cancelled

\* C29: a resume leaves the pool (size, map of workers, timers), every
\* subprocess and the dispatching thread as they were and writes at most
\* the row of its path, whose status becomes queued with the error message
\* cleared and nothing else changed; a worker is only ever started by the
\* daemon's Dispatch, for the head of its list.
C29_ResumeOnlyRequeues ==
    [][\A p \in Paths :
          /\ Handles("resume", p) =>
                /\ UNCHANGED <<poolVars, procs, daemonVars>>
                /\ \A q \in Paths \ {p} : rows'[q] = rows[q]
                /\ \/ rows'[p] = rows[p]
                   \/ /\ rows[p].status # "absent"
                      /\ rows'[p] = [rows[p] EXCEPT !.status = "queued",
                                                    !.error_message = "null"]
          /\ Started(p) => dpc = "spawn" /\ Head(dFresh) = p]_vars

\* A path that failed once and was requeued by a resume: its message is
\* cleared, its error_count kept, and no worker runs for it.
C29_Witness ==
    /\ lastCall.op = "resume"
    /\ lastCall.path = "/in/a.ts"
    /\ rows["/in/a.ts"].status = "queued"
    /\ rows["/in/a.ts"].error_message = "null"
    /\ rows["/in/a.ts"].error_count = 1
    /\ workers["/in/a.ts"] = 0
    /\ dpc = "idle"

\* The row r requeued: status queued, no error message, all else as in r.
Requeued(r) == [r EXCEPT !.status = "queued", !.error_message = "null"]

\* C30: on an existing row MarkPaused changes the status only, so pausing a
\* paused row changes nothing, and MarkResumed executed on the row MarkPaused
\* has just left gives status queued with the message cleared and
\* error_count as before the pause; as functions of any row the ledger can
\* hold, MarkResumed after MarkPaused is the requeued row and MarkPaused
\* after MarkPaused is MarkPaused.
C30_PauseResumeRoundTrip ==
    [][\A p \in Paths :
          LET r == rows[p] IN
          r.status # "absent" =>
             /\ MarkResumed(MarkPaused(r)) = Requeued(r)
             /\ MarkPaused(MarkPaused(r)) = MarkPaused(r)
             /\ MarkPaused(r).status = "paused"
             /\ Executes("MarkPaused", p) =>
                   /\ rows'[p] = [r EXCEPT !.status = "paused"]
                   /\ r.status = "paused" => rows' = rows
             /\ Executes("MarkResumed", p)
                   /\ lastCall = [op |-> "MarkPaused", path |-> p] =>
                   /\ r.status = "paused"
                   /\ rows'[p] = Requeued(r)
                   /\ rows'[p].error_count = r.error_count]_vars

\* A resume has requeued a path that failed twice: it is queued with no
\* message and error_count 2, while the other path, which failed too, is
\* paused.
C30_Witness ==
    /\ lastCall = [op |-> "MarkResumed", path |-> "/in/a.ts"]
    /\ rows["/in/a.ts"].status = "queued"
    /\ rows["/in/a.ts"].error_message = "null"
    /\ rows["/in/a.ts"].error_count = MaxErrors
    /\ rows["/in/b.ts"].status = "paused"
    /\ rows["/in/b.ts"].error_message # "null"

----------------------------------------------------------------------------
(* The scanner *)

\* ScanAll has returned without error.
Scanned == lastCall.op = "ScanAll" /\ lastCall.result.err = "nil"

\* Pipeline pl matches path and admits the age of the file.
ClaimsPath(pl, path) ==
    \E k \in 1..Len(pl.Paths) :
       \E i \in 1..Len(GlobWalkFiles(pl.Paths[k])) :
          LET f == GlobWalkFiles(pl.Paths[k])[i] IN
          f.Path = path /\ Admits(pl, f.ModTime)

\* C31: the list ScanAll returns names no path twice, and each candidate
\* carries the name, priority and direction of the first pipeline, in
\* declaration order, that matches its path and admits its age.
C31_FirstPipelineWins ==
    Scanned =>
       LET ps == lastCall.pipelines
           cs == lastCall.result.candidates IN
       /\ \A i, j \in 1..Len(cs) : i # j => cs[i].Path # cs[j].Path
       /\ \A i \in 1..Len(cs) :
             \E k \in 1..Len(ps) :
                /\ ClaimsPath(ps[k], cs[i].Path)
                /\ \A h \in 1..(k - 1) : ~ClaimsPath(ps[h], cs[i].Path)
                /\ cs[i].PipelineName = ps[k].Name
                /\ cs[i].Priority = ps[k].Priority
                /\ cs[i].Direction = ps[k].Direction

\* Both pipelines match file 1; the second has the better priority and the
\* other direction, and the one candidate for file 1 is the first's.
C31_Witness ==
    /\ Scanned
    /\ Len(lastCall.pipelines) = 2
    /\ ClaimsPath(lastCall.pipelines[1], 1)
    /\ ClaimsPath(lastCall.pipelines[2], 1)
    /\ lastCall.pipelines[1].Priority = 2
    /\ lastCall.pipelines[2].Priority = 1
    /\ lastCall.pipelines[1].Direction = "oldest"
    /\ lastCall.pipelines[2].Direction = "newest"
    /\ \E i \in 1..Len(lastCall.result.candidates) :
          /\ lastCall.result.candidates[i].Path = 1
          /\ lastCall.result.candidates[i].PipelineName = "hls"
          /\ lastCall.result.candidates[i].Priority = 2

\* Candidate x comes before y in the order of its pipeline's direction, or
\* is its equal.
InDirection(x, y) ==
    IF x.Direction = "oldest" THEN x.ModTime <= y.ModTime
    ELSE x.ModTime >= y.ModTime

\* C32: the list ScanAll returns is in ascending priority, and among the
\* candidates of one priority the files of each pipeline appear in
\* modification-time order, ascending for direction oldest and descending
\* for newest, whatever the directions of the other pipelines of that
\* priority.
C32_SortedByPriorityThenDirection ==
    Scanned =>
       LET cs == lastCall.result.candidates IN
       \A i, j \in 1..Len(cs) :
          i < j =>
             /\ cs[i].Priority <= cs[j].Priority
             /\ cs[i].PipelineName = cs[j].PipelineName => InDirection(cs[i], cs[j])

\* The order of C32 on the lists short enough for the sort to be a single
\* insertion sort (fewer than blockSize + 1 candidates).
C32_ShortListsSorted ==
    (Scanned /\ Len(lastCall.result.candidates) <= blockSize)
        => C32_SortedByPriorityThenDirection

\* The files the walks of pipeline pl report.
Matches(pl) ==
    UNION {{pl.Paths[k].walk[i] : i \in 1..Len(pl.Paths[k].walk)} :
              k \in 1..Len(pl.Paths)}

\* A pipeline whose two age bounds are zero, absent or written as a zero
\* duration.
ZeroAges(pl) == pl.MinAge.d = 0 /\ pl.MaxAge.d = 0

\* C33: a pipeline whose min_age and max_age are both zero, absent or
\* explicit, admits every file it matches; any other pipeline rejects a file
\* exactly when its age is below a set min_age or above a set max_age.  So
\* the paths of a successful scan are the paths of the files so admitted.
C33_ZeroAgeUnbounded ==
    Scanned =>
       LET cs == lastCall.result.candidates
           pls == lastCall.pipelines
       IN  {cs[i].Path : i \in 1..Len(cs)}
             = {f.Path : f \in UNION {{g \in Matches(pls[k]) :
                                          ZeroAges(pls[k]) \/ Admits(pls[k], g.ModTime)} :
                                       k \in 1..Len(pls)}}

\* The roots of a configuration, as pairs of a pipeline's index and a
\* pattern's index.
Roots(pls) ==
    UNION {{<<k, n>> : n \in 1..Len(pls[k].Paths)} : k \in 1..Len(pls)}

\* A directory of root rt could not be read.
Unreadable(pls, rt) == pls[rt[1]].Paths[rt[2]].fault = "io"

\* No pattern of the configuration is malformed.
WellFormed(pls) == \A rt \in Roots(pls) : pls[rt[1]].Paths[rt[2]].fault # "pattern"

----------------------------------------------------------------------------
(* The task-id codec *)

\* C35: decoding the id of a path gives the path back without error, and
\* two different paths have different ids.
C35_CodecRoundTripsInjective ==
    lastCall.op = "taskID" =>
       /\ lastCall.back = [path |-> lastCall.p, err |-> "nil"]
       /\ lastCall.p # lastCall.q => lastCall.idp # lastCall.idq

\* A path of two bytes, whose id ends in padding, and a path that extends it
\* by one byte.
C35_Witness ==
    /\ lastCall.op = "taskID"
    /\ Len(lastCall.p) = 2
    /\ Len(lastCall.q) = 3
    /\ SubSeq(lastCall.q, 1, 2) = lastCall.p
    /\ lastCall.idp[4] = padChar
    /\ lastCall.back.path = lastCall.p

----------------------------------------------------------------------------
(* Daemon.Stop *)

\* What Stop leaves alone: the pool, the subprocesses and the ledger.
StopLeaves == UNCHANGED <<rows, poolVars, procs>>

\* C36: Stop returns only when the run loop has finished, the tick in
\* progress included, and it does return; once it has returned no tick
\* begins and no Dispatch call is under way; the steps of Stop itself cancel
\* no worker and leave the pool as it is.
C36_StopWaitsForLoop ==
    /\ [][/\ lastCall' # lastCall => StopLeaves /\ UNCHANGED daemonVars
          /\ (phase # "stopped" /\ phase' = "stopped")
                => dpc = "idle" /\ StopLeaves /\ UNCHANGED daemonVars
          /\ phase = "stopped"
                => phase' = "stopped" /\ dpc = "idle" /\ UNCHANGED daemonVars]_vars
    /\ (lastCall.op = "Stop") ~> (phase = "stopped")

\* Stop was called during a Dispatch call and has returned after it, with a
\* worker of that tick still running.
C36_Witness ==
    /\ phase = "stopped"
    /\ dpc = "idle"
    /\ \E p \in Paths : workers[p] # 0 /\ procs[workers[p]].st = "running"

----------------------------------------------------------------------------
(* The converter handler's scan *)

\* The scan loop ends its iteration for path c in this step.
ScanDecides(c) ==
    /\ dpc \in {"is_completed", "is_in_flight", "upsert"}
    /\ Head(dFresh) = c
    /\ dpc' \in {"idle", "is_completed"}

\* C37: the scan never submits a file whose row is completed or in_flight,
\* and every other file it finds it upserts to queued and submits.
C37_ScanSubmitsUnlessDoneOrRunning ==
    [][\A c \in Paths :
          ScanDecides(c) =>
             IF rows[c].status \in {"completed", "in_flight"}
             THEN lastCall'.op # "Submit"
             ELSE /\ lastCall'.op = "Submit"
                  /\ lastCall'.path = c
                  /\ rows'[c].status = "queued"]_vars

\* The scan has submitted a file whose row was completed: its worker exited
\* between the two queries of the scan.
C37_CompletedSubmitted == lastCall.op = "Submit" /\ lastCall.was = "completed"

----------------------------------------------------------------------------
(* Pool.wait and the pool mutex *)

\* The waiter of pid calls onComplete in this step.
CallsBack(pid) ==
    /\ pid \in 1..Len(procs)
    /\ procs[pid].st = "callback"
    /\ procs'[pid].st = "done"

\* C38: when the waiter calls the completion callback its worker is out of
\* the mapping and it does not hold the pool mutex; every waiter whose
\* subprocess has exited gets to its callback and through it, whatever the
\* callers of the pool do meanwhile.
C38_CallbackOutsideMutex ==
    /\ [][\A pid \in Pids :
             CallsBack(pid) =>
                /\ ~Holder(pid)
                /\ \A p \in Paths : workers[p] # pid]_vars
    /\ \A pid \in Pids :
          (pid \in 1..Len(procs) /\ procs[pid].st = "waited")
             ~> (pid \in 1..Len(procs) /\ procs[pid].st = "done")

\* One waiter has called the callback and returned from it, out of the
\* mapping, and the waiter of another worker is inside its critical section.
C38_Witness ==
    \E pid, o \in 1..Len(procs) :
       /\ procs[pid].st = "done"
       /\ procs[o].st = "locked"
       /\ \A p \in Paths : workers[p] # pid

----------------------------------------------------------------------------
(* Failed starts within one Dispatch call *)

\* startWorker returns an error for the candidate at the head of the list: an
\* unknown pipeline or a render error, a MarkInFlight error, or a spawn error.
StartFails ==
    /\ dpc \in {"loop", "mark", "spawn"}
    /\ dFresh # <<>> /\ dLeft > 0
    /\ workers[Head(dFresh)] = 0
    /\ dFresh' = Tail(dFresh)
    /\ procs' = procs

\* C39: a candidate whose start fails takes no slot and the loop goes on to
\* the next candidate; the loop ends only at the end of the list or when as
\* many workers have been started as there were free slots.
C39_FailedStartTakesNoSlot ==
    [][/\ StartFails => dLeft' = dLeft /\ dpc' = "loop"
       /\ (dpc = "loop" /\ dpc' = "idle") => dFresh = <<>> \/ dLeft = 0]_vars

\* A tick handed over both paths with one slot free: the subprocess of the
\* first failed to start, and the second was started in the slot.
C39_Witness ==
    /\ lastCall.op = "tick"
    /\ lastCall.handed = ScanOrder
    /\ size = 1
    /\ workers["/in/a.ts"] = 0
    /\ \A pid \in 1..Len(procs) : procs[pid].path # "/in/a.ts"
    /\ rows["/in/a.ts"].status = "in_flight"
    /\ workers["/in/b.ts"] # 0
    /\ dLeft = 0

----------------------------------------------------------------------------
(* The paths of the ledger *)

\* The paths that have a row.
Ledger == {p \in Paths : rows[p].status # "absent"}

MarkStatements ==
    {"MarkInFlight", "MarkCompleted", "MarkErrored", "MarkPaused", "MarkResumed"}

\* C40: the Mark statements executed on a path that has no row change
\* nothing, on that path or another; the ledger loses no path, and it gains
\* one only by an UpsertQueued, the path of that statement.
C40_OnlyUpsertCreatesRows ==
    [][/\ \A p \in Paths :
             (lastCall'.op \in MarkStatements /\ lastCall'.path = p
                 /\ rows[p].status = "absent") => rows' = rows
       /\ Ledger \subseteq Ledger'
       /\ Ledger' # Ledger =>
             /\ lastCall'.op = "UpsertQueued"
             /\ Ledger' = Ledger \cup {lastCall'.path}]_vars

\* MarkResumed has just been executed on a path that has no row, beside a
\* row that has failed: there is still no row, and the other row is as it was.
C40_Witness ==
    /\ lastCall.op = "MarkResumed"
    /\ lastCall.path = "/in/b.ts"
    /\ rows["/in/b.ts"].status = "absent"
    /\ rows["/in/a.ts"].status = "errored"
    /\ rows["/in/a.ts"].error_message # "null"

====
